---- MODULE Spec2Model ----
(***************************************************************************)
(* Model of src/helper/bitmap.js (scratch-paint): Bresenham line stepping, *)
(* flood fill, hit-bounds trimming, ellipse validity checks and rotated    *)
(* rectangle drawing over an RGBA pixel buffer.                            *)
(*                                                                         *)
(* Numbers.  Input coordinates are JavaScript numbers.  The model draws    *)
(* them from the half-integers and represents the number n/2 by the        *)
(* integer n ("halves"), so that the conversion ~~v (truncation toward     *)
(* zero) is a real conversion.  Pixel coordinates are plain integers.      *)
(* The ellipse routines compute with quotients and square roots; there a   *)
(* number is a rational, an infinity or NaN, and a root of a quadratic is  *)
(* kept in the form (p + sgn * sqrt(disc)) / q.                            *)
(***************************************************************************)
EXTENDS Integers, Sequences, FiniteSets, TLC

VARIABLES
    pc,          \* position of the running call
    point1,      \* forEachLinePoint: first argument, [x, y] in halves
    point2,      \* forEachLinePoint: second argument, [x, y] in halves
    x1,          \* forEachLinePoint: let x1
    y1,          \* forEachLinePoint: let y1
    err,         \* forEachLinePoint: let err
    visited,     \* the points handed to callback, in order, by the running call
    firstVisited, \* the points handed to callback by the previous call
    callNo,      \* 1 for the first call, 2 for the call with the endpoints exchanged
    canvas,      \* the context's pixels: linear pixel index -> <<r, g, b, a>>
    before,      \* the context's pixels when the running call was entered
    fillX,       \* floodFill / floodFillAll: argument x, in halves
    fillY,       \* floodFill / floodFillAll: argument y, in halves
    fillStyle,   \* floodFill / floodFillAll: argument color, a fill style string
    newColor,    \* floodFill: const newColor
    oldColor,    \* floodFill: const oldColor
    imageData,   \* floodFill: const imageData, the copy the loop works on
    stack,       \* floodFill: const stack, of <<x, y>>
    ret,         \* the value returned by the call
    colored,     \* the pixel indices written by colorPixel_ in this call, in order
    pushes,      \* the number of stack.push calls in this call
    puts,        \* the number of context.putImageData calls in this call
    hitBounds,   \* getHitBounds: the rectangle returned
    activeLayer, \* paper.project.activeLayer: its children, in order
    calls,       \* the callbacks and layer helpers called, in order
    images,      \* convertToBitmap: per call, const img and the fallback raster
    rectSize,    \* drawRect: rect.size, [width, height]
    rectMatrix,  \* drawRect: rect.matrix, [a, b, c, d, tx, ty] with tx, ty in halves
    ellipseArgs, \* drawEllipse: [positionX, positionY, radiusX, radiusY, matrix, isFilled]
    options,     \* drawShearedEllipse_: the options argument
    stepAt,      \* drawEllipseStep*_: the loop variable (let y, resp. let x)
    pLast,       \* drawEllipseStep*_: <<pX1, pY>>, resp. <<pX, pY1>>
    lastPoint,   \* drawShearedEllipse_: let lastPoint
    fillRects,   \* the number of context.fillRect calls issued by the running call
    stepRects,   \* the [x, y, w, h] of the fillRect calls of the latest loop iteration
    allRects     \* the [x, y, w, h] of every fillRect call of the running call

lineVars == <<point1, point2, x1, y1, err, visited, firstVisited, callNo>>

fillVars == <<canvas, before, fillX, fillY, fillStyle, newColor, oldColor, imageData,
              stack, ret, colored, pushes, puts>>

boundsVars == <<hitBounds, activeLayer, calls, images>>

rectVars == <<rectSize, rectMatrix>>

ellipseVars == <<ellipseArgs, options, stepAt, pLast, lastPoint, fillRects,
                 stepRects, allRects>>

vars == <<pc, lineVars, fillVars, boundsVars, rectVars, ellipseVars>>

notLine == <<fillVars, boundsVars, rectVars, ellipseVars>>

notFill == <<lineVars, boundsVars, rectVars, ellipseVars>>

notBounds == <<lineVars, fillVars, rectVars, ellipseVars>>

----------------------------------------------------------------------------
(* Arithmetic helpers *)

Abs(n) == IF n < 0 THEN -n ELSE n

Max(a, b) == IF a >= b THEN a ELSE b

Min(a, b) == IF a <= b THEN a ELSE b

\* Math.floor of the number h/2.
FloorHalf(h) == h \div 2

\* ~~v for v = h/2: ToInt32 drops the fraction, rounding toward zero.
DoubleTilde(h) == IF h >= 0 THEN h \div 2 ELSE -((-h) \div 2)

Reverse(s) == [i \in 1..Len(s) |-> s[Len(s) + 1 - i]]

----------------------------------------------------------------------------
(* Bounds *)

\* forEachLinePoint's coordinates range over -MaxHalf/2 .. MaxHalf/2.
MaxHalf == 4

Halves == (-MaxHalf)..MaxHalf

Points == [x : Halves, y : Halves]

----------------------------------------------------------------------------
(* forEachLinePoint *)

X2 == DoubleTilde(point2.x)
Y2 == DoubleTilde(point2.y)

\* The entry with the first callback(x1, y1) of line 19 left out.
ForEachLinePointEnterNoFirst ==
    /\ pc = "line_call"
    /\ x1' = DoubleTilde(point1.x)
    /\ y1' = DoubleTilde(point1.y)
    /\ err' = Abs(DoubleTilde(point2.x) - DoubleTilde(point1.x))
                - Abs(DoubleTilde(point2.y) - DoubleTilde(point1.y))
    /\ visited' = <<>>
    /\ pc' = "line_loop"
    /\ UNCHANGED <<point1, point2, firstVisited, callNo>>
    /\ UNCHANGED notLine

\* Lines 8-19: truncate the endpoints, set err and report the first point.
ForEachLinePointEnter ==
    /\ pc = "line_call"
    /\ x1' = DoubleTilde(point1.x)
    /\ y1' = DoubleTilde(point1.y)
    /\ err' = Abs(X2 - DoubleTilde(point1.x)) - Abs(Y2 - DoubleTilde(point1.y))
    /\ visited' = <<<<DoubleTilde(point1.x), DoubleTilde(point1.y)>>>>
    /\ pc' = "line_loop"
    /\ UNCHANGED <<point1, point2, firstVisited, callNo>>
    /\ UNCHANGED notLine

\* dx, dy, sx, sy are constants of the call, computed from the truncated
\* endpoints before the loop (lines 13-16).
LineDx == Abs(X2 - DoubleTilde(point1.x))
LineDy == Abs(Y2 - DoubleTilde(point1.y))
LineSx == IF DoubleTilde(point1.x) < X2 THEN 1 ELSE -1
LineSy == IF DoubleTilde(point1.y) < Y2 THEN 1 ELSE -1

\* The loop body with the y step's test written against dy instead of dx.
ForEachLinePointStepDy ==
    /\ pc = "line_loop"
    /\ (x1 # X2 \/ y1 # Y2)
    /\ LET e2 == err * 2
           stepX == e2 > -LineDy
           stepY == e2 < LineDy
           nx == IF stepX THEN x1 + LineSx ELSE x1
           ny == IF stepY THEN y1 + LineSy ELSE y1
       IN /\ err' = err - (IF stepX THEN LineDy ELSE 0) + (IF stepY THEN LineDx ELSE 0)
          /\ x1' = nx
          /\ y1' = ny
          /\ visited' = Append(visited, <<nx, ny>>)
    /\ UNCHANGED <<pc, point1, point2, firstVisited, callNo>>
    /\ UNCHANGED notLine

\* Lines 21-29: the body of the while loop, from (x, y) with error e.
LineStepOf(x, y, e, dx, dy, sx, sy) ==
    LET e2 == e * 2
        stepX == e2 > -dy
        stepY == e2 < dx
    IN  [x |-> IF stepX THEN x + sx ELSE x,
         y |-> IF stepY THEN y + sy ELSE y,
         err |-> e - (IF stepX THEN dy ELSE 0) + (IF stepY THEN dx ELSE 0)]

\* Lines 20-31: one iteration of the while loop.
ForEachLinePointStep ==
    /\ pc = "line_loop"
    /\ (x1 # X2 \/ y1 # Y2)
    /\ LET n == LineStepOf(x1, y1, err, LineDx, LineDy, LineSx, LineSy)
       IN /\ err' = n.err
          /\ x1' = n.x
          /\ y1' = n.y
          /\ visited' = Append(visited, <<n.x, n.y>>)
    /\ UNCHANGED <<pc, point1, point2, firstVisited, callNo>>
    /\ UNCHANGED notLine

\* Line 20: the loop condition fails and the call returns.
ForEachLinePointReturn ==
    /\ pc = "line_loop"
    /\ x1 = X2
    /\ y1 = Y2
    /\ pc' = "line_ret"
    /\ UNCHANGED lineVars
    /\ UNCHANGED notLine

\* The caller calls again with the two endpoints exchanged (drawRect draws
\* edges from either end: lines 543-554).
ForEachLinePointCallReversed ==
    /\ pc = "line_ret"
    /\ callNo = 1
    /\ callNo' = 2
    /\ point1' = point2
    /\ point2' = point1
    /\ firstVisited' = visited
    /\ visited' = <<>>
    /\ pc' = "line_call"
    /\ UNCHANGED <<x1, y1, err>>
    /\ UNCHANGED notLine

LineIdle ==
    /\ point1 = [x |-> 0, y |-> 0]
    /\ point2 = [x |-> 0, y |-> 0]
    /\ x1 = 0
    /\ y1 = 0
    /\ err = 0
    /\ visited = <<>>
    /\ firstVisited = <<>>
    /\ callNo = 1

RectIdle ==
    /\ rectSize = [width |-> 0, height |-> 0]
    /\ rectMatrix = [a |-> 1, b |-> 0, c |-> 0, d |-> 1, tx |-> 0, ty |-> 0]

EllipseIdle ==
    /\ ellipseArgs = <<>>
    /\ options = <<>>
    /\ stepAt = <<>>
    /\ pLast = <<>>
    /\ lastPoint = <<>>
    /\ fillRects = 0
    /\ stepRects = <<>>
    /\ allRects = {}

BoundsIdle ==
    /\ hitBounds = [x |-> 0, y |-> 0, width |-> 0, height |-> 0]
    /\ activeLayer = <<>>
    /\ calls = <<>>
    /\ images = <<>>

FillLocalsIdle ==
    /\ fillX = 0
    /\ fillY = 0
    /\ fillStyle = ""
    /\ newColor = <<>>
    /\ oldColor = <<>>
    /\ imageData = <<>>
    /\ stack = <<>>
    /\ ret = FALSE
    /\ colored = <<>>
    /\ pushes = 0
    /\ puts = 0

FillIdle ==
    /\ canvas = <<>>
    /\ before = <<>>
    /\ fillX = 0
    /\ fillY = 0
    /\ fillStyle = ""
    /\ newColor = <<>>
    /\ oldColor = <<>>
    /\ imageData = <<>>
    /\ stack = <<>>
    /\ ret = FALSE
    /\ colored = <<>>
    /\ pushes = 0
    /\ puts = 0

InitLine ==
    /\ pc = "line_call"
    /\ point1 \in Points
    /\ point2 \in Points
    /\ x1 = 0
    /\ y1 = 0
    /\ err = 0
    /\ visited = <<>>
    /\ firstVisited = <<>>
    /\ callNo = 1
    /\ FillIdle
    /\ BoundsIdle
    /\ RectIdle
    /\ EllipseIdle

NextLine ==
    \/ ForEachLinePointEnter
    \/ ForEachLinePointStep
    \/ ForEachLinePointReturn
    \/ ForEachLinePointCallReversed

\* The loop is synchronous code: a call that can take a step takes it.
SpecLine == InitLine /\ [][NextLine]_vars /\ WF_vars(NextLine)

----------------------------------------------------------------------------
(* Claims about forEachLinePoint *)

\* Truncation toward zero of the number h/2.
TruncTowardZero(h) == IF h < 0 THEN -((0 - h) \div 2) ELSE h \div 2

LineStartsAtP1 ==
    visited[1] = <<TruncTowardZero(point1.x), TruncTowardZero(point1.y)>>

LineEndsAtP2 ==
    visited[Len(visited)] = <<TruncTowardZero(point2.x), TruncTowardZero(point2.y)>>

LineConnected ==
    \A i \in 1..(Len(visited) - 1) :
        /\ Abs(visited[i + 1][1] - visited[i][1]) <= 1
        /\ Abs(visited[i + 1][2] - visited[i][2]) <= 1

LineLength ==
    Len(visited) =
        Max(Abs(TruncTowardZero(point2.x) - TruncTowardZero(point1.x)),
            Abs(TruncTowardZero(point2.y) - TruncTowardZero(point1.y))) + 1

LineContract ==
    pc = "line_ret" =>
        LineStartsAtP1 /\ LineEndsAtP2 /\ LineConnected /\ LineLength

\* C1: every call of forEachLinePoint terminates, and the points it visits
\* start at truncated p1, end at truncated p2, move by at most 1 on each axis
\* per step and number max(|dx|,|dy|)+1.
C1_LineContract ==
    /\ []LineContract
    /\ (pc = "line_call") ~> (pc = "line_ret")

\* C1 witness: a returned call between points with negative fractional
\* coordinates (where truncation and floor differ) that took a diagonal and
\* a straight step.
C1_Witness ==
    /\ pc = "line_ret"
    /\ point1.x = -3
    /\ point1.y = -1
    /\ point2.x = 4
    /\ point2.y = 3
    /\ Len(visited) = 4

LineReturnedBoth == pc = "line_ret" /\ callNo = 2

\* C2 as stated: the reversed call visits exactly the reverse of the sequence
\* of the first call.
C2_ReverseIsReversed ==
    LineReturnedBoth => visited = Reverse(firstVisited)

LineStraight ==
    \/ TruncTowardZero(point1.x) = TruncTowardZero(point2.x)
    \/ TruncTowardZero(point1.y) = TruncTowardZero(point2.y)
    \/ Abs(TruncTowardZero(point2.x) - TruncTowardZero(point1.x))
         = Abs(TruncTowardZero(point2.y) - TruncTowardZero(point1.y))

\* C2 amended: the reversed call visits as many points as the first call, and
\* its i-th point is the i-th point of the first call reflected through the
\* midpoint of the truncated endpoints; it is exactly the reverse of the first
\* call's sequence when the line is horizontal, vertical or diagonal.
C2_ReverseIsReflection ==
    LineReturnedBoth =>
        /\ Len(visited) = Len(firstVisited)
        /\ \A i \in 1..Len(visited) :
              /\ visited[i][1] = TruncTowardZero(point1.x) + TruncTowardZero(point2.x)
                                   - firstVisited[i][1]
              /\ visited[i][2] = TruncTowardZero(point1.y) + TruncTowardZero(point2.y)
                                   - firstVisited[i][2]
        /\ (LineStraight => visited = Reverse(firstVisited))

\* C2 witness: both calls returned for a line that is neither straight nor
\* diagonal, and the two sequences are not each other's reverse.
C2_Witness ==
    /\ LineReturnedBoth
    /\ ~LineStraight
    /\ visited # Reverse(firstVisited)

----------------------------------------------------------------------------
(* Pixel buffers *)

\* The canvas is Width x Height pixels.
Width == 3
Height == 3

\* A canvas of the model is transparent but for at most MaxInk black pixels.
MaxInk == 2

NumPixels == Width * Height

\* ImageData.data holds 4 bytes per pixel, row-major: the pixel at (x, y) is
\* bytes 4 * (y * width + x) .. + 3.  The model indexes whole pixels.
Indices == 0..(NumPixels - 1)

Transparent == <<0, 0, 0, 0>>
Black == <<0, 0, 0, 255>>
Red == <<255, 0, 0, 255>>

InkSets == {S \in SUBSET Indices : Cardinality(S) <= MaxInk}

Buffers == {[i \in Indices |-> IF i \in S THEN Black ELSE Transparent] : S \in InkSets}

FillStyles == {"#000000", "#ff0000"}

\* Seed coordinates, in halves: -1, -1/2 and the integers 0..Width
\* (0..Height), so inside the canvas and past each of its edges.
SeedXs == {-2, -1} \cup {2 * k : k \in 0..Width}
SeedYs == {-2, -1} \cup {2 * k : k \in 0..Height}

----------------------------------------------------------------------------
(* Flood fill *)

\* fillStyleToColor_ paints a 1x1 canvas with the style and reads the pixel.
FillStyleToColor(fillStyleString) ==
    CASE fillStyleString = "#ff0000" -> Red
      [] fillStyleString = "#000000" -> Black
      [] OTHER -> Transparent

\* getColor_: getImageData(x, y, 1, 1); pixels outside the canvas read as
\* transparent black.
GetColor(x, y, context) ==
    IF x >= 0 /\ x < Width /\ y >= 0 /\ y < Height
    THEN context[(y * Width) + x]
    ELSE Transparent

\* matchesColor_ comparing r, g and b only.
MatchesColorRGB(x, y, data, old) ==
    LET index == (y * Width) + x
    IN  /\ index \in DOMAIN data
        /\ data[index][1] = old[1]
        /\ data[index][2] = old[2]
        /\ data[index][3] = old[3]

\* matchesColor_: the index is not checked against the row, and a read past
\* either end of data is undefined, which equals no channel value.
MatchesColor(x, y, data, old) ==
    LET index == (y * Width) + x
    IN  /\ index \in DOMAIN data
        /\ data[index][1] = old[1]
        /\ data[index][2] = old[2]
        /\ data[index][3] = old[3]
        /\ data[index][4] = old[4]

\* colorPixel_ leaving the alpha byte as it was.
ColorPixelRGB(x, y, data, new) ==
    LET index == (y * Width) + x
    IN  IF index \in DOMAIN data
        THEN [data EXCEPT ![index] = <<new[1], new[2], new[3], data[index][4]>>]
        ELSE data

\* colorPixel_: a write past either end of a typed array is dropped.
ColorPixel(x, y, data, new) ==
    LET index == (y * Width) + x
    IN  IF index \in DOMAIN data
        THEN [data EXCEPT ![index] = <<new[1], new[2], new[3], new[4]>>]
        ELSE data

\* The colour comparison without the alpha channel.
SameColorRGB(c1, c2) ==
    /\ c1[1] = c2[1]
    /\ c1[2] = c2[2]
    /\ c1[3] = c2[3]

\* Lines 476-479 and 505-508.
SameColor(c1, c2) ==
    /\ c1[1] = c2[1]
    /\ c1[2] = c2[2]
    /\ c1[3] = c2[3]
    /\ c1[4] = c2[4]

\* Lines 416-418: walk up while the pixel above matches.
RECURSIVE FloodFillTop(_, _, _, _)
FloodFillTop(x, y, data, old) ==
    IF y > 0 /\ MatchesColor(x, y - 1, data, old)
    THEN FloodFillTop(x, y - 1, data, old)
    ELSE y

\* The row step without the else branches of lines 430-432 and 440-442: the
\* flags are never reset.
FloodFillRowNoReset(x, y, st, new, old) ==
    LET d == ColorPixel(x, y, st.data, new)
        leftMatch == x > 0 /\ MatchesColor(x - 1, y, d, old)
        pushLeft == leftMatch /\ ~st.left
        s1 == IF pushLeft THEN Append(st.stack, <<x - 1, y>>) ELSE st.stack
        rightMatch == x < Width - 1 /\ MatchesColor(x + 1, y, d, old)
        pushRight == rightMatch /\ ~st.right
        s2 == IF pushRight THEN Append(s1, <<x + 1, y>>) ELSE s1
    IN  [data |-> d,
         stack |-> s2,
         left |-> st.left \/ leftMatch,
         right |-> st.right \/ rightMatch,
         colored |-> Append(st.colored, (y * Width) + x),
         pushes |-> st.pushes + (IF pushLeft THEN 1 ELSE 0) + (IF pushRight THEN 1 ELSE 0)]

\* Lines 424-443: the neighbour tests of one row, after the pixel is coloured.
\* st = [data, stack, left, right, colored, pushes].
FloodFillRow(x, y, st, new, old) ==
    LET d == ColorPixel(x, y, st.data, new)
        leftMatch == x > 0 /\ MatchesColor(x - 1, y, d, old)
        pushLeft == leftMatch /\ ~st.left
        s1 == IF pushLeft THEN Append(st.stack, <<x - 1, y>>) ELSE st.stack
        rightMatch == x < Width - 1 /\ MatchesColor(x + 1, y, d, old)
        pushRight == rightMatch /\ ~st.right
        s2 == IF pushRight THEN Append(s1, <<x + 1, y>>) ELSE s1
    IN  [data |-> d,
         stack |-> s2,
         left |-> IF x > 0 THEN leftMatch ELSE st.left,
         right |-> IF x < Width - 1 THEN rightMatch ELSE st.right,
         colored |-> Append(st.colored, (y * Width) + x),
         pushes |-> st.pushes + (IF pushLeft THEN 1 ELSE 0) + (IF pushRight THEN 1 ELSE 0)]

\* Lines 421-444: the for loop.
RECURSIVE FloodFillScan(_, _, _, _, _)
FloodFillScan(x, y, st, new, old) ==
    IF y < Height /\ MatchesColor(x, y, st.data, old)
    THEN FloodFillScan(x, y + 1, FloodFillRow(x, y, st, new, old), new, old)
    ELSE st

\* floodFillInternal_
FloodFillInternal(x, y, data, new, old, stk) ==
    FloodFillScan(x, FloodFillTop(x, y, data, old),
                  [data |-> data, stack |-> stk, left |-> FALSE, right |-> FALSE,
                   colored |-> <<>>, pushes |-> 0],
                  new, old)

\* floodFill, lines 471-482: sample the colours and copy the canvas; return
\* false when the colours are the same, else start the stack.
FloodFillEnter ==
    /\ pc = "fill_call"
    /\ LET x == DoubleTilde(fillX)
           y == DoubleTilde(fillY)
           new == FillStyleToColor(fillStyle)
           old == GetColor(x, y, canvas)
       IN  /\ newColor' = new
           /\ oldColor' = old
           /\ imageData' = canvas
           /\ IF SameColor(old, new)
              THEN /\ ret' = FALSE
                   /\ pc' = "fill_ret"
                   /\ stack' = <<>>
              ELSE /\ ret' = ret
                   /\ pc' = "fill_loop"
                   /\ stack' = <<<<x, y>>>>
    /\ UNCHANGED <<canvas, before, fillX, fillY, fillStyle, colored, pushes, puts>>
    /\ UNCHANGED notFill

\* floodFill, lines 483-486: pop one entry and scan its column.
FloodFillPop ==
    /\ pc = "fill_loop"
    /\ stack # <<>>
    /\ LET pop == stack[Len(stack)]
           r == FloodFillInternal(pop[1], pop[2], imageData, newColor, oldColor,
                                  SubSeq(stack, 1, Len(stack) - 1))
       IN  /\ imageData' = r.data
           /\ stack' = r.stack
           /\ colored' = colored \o r.colored
           /\ pushes' = pushes + r.pushes
    /\ UNCHANGED <<pc, canvas, before, fillX, fillY, fillStyle, newColor, oldColor, ret, puts>>
    /\ UNCHANGED notFill

\* floodFill, lines 487-488: the stack is empty; write back and return true.
FloodFillReturn ==
    /\ pc = "fill_loop"
    /\ stack = <<>>
    /\ canvas' = imageData
    /\ puts' = puts + 1
    /\ ret' = TRUE
    /\ pc' = "fill_ret"
    /\ UNCHANGED <<before, fillX, fillY, fillStyle, newColor, oldColor, imageData, stack,
                   colored, pushes>>
    /\ UNCHANGED notFill

\* The scan with the inner loop stopping one row early (j < height - 1).
RECURSIVE FloodFillAllScanShort(_, _, _, _)
FloodFillAllScanShort(k, st, new, old) ==
    IF k >= Width * Height
    THEN st
    ELSE LET i == k \div Height
             j == k % Height
         IN  IF j < Height - 1 /\ MatchesColor(i, j, st.data, old)
             THEN FloodFillAllScanShort(k + 1,
                      [data |-> ColorPixel(i, j, st.data, new),
                       colored |-> Append(st.colored, (j * Width) + i)],
                      new, old)
             ELSE FloodFillAllScanShort(k + 1, st, new, old)

\* Lines 511-517: for i over the columns, for j over the rows.  k counts the
\* pixels in that order: i = k \div Height, j = k % Height.
RECURSIVE FloodFillAllScan(_, _, _, _)
FloodFillAllScan(k, st, new, old) ==
    IF k >= Width * Height
    THEN st
    ELSE LET i == k \div Height
             j == k % Height
         IN  IF MatchesColor(i, j, st.data, old)
             THEN FloodFillAllScan(k + 1,
                      [data |-> ColorPixel(i, j, st.data, new),
                       colored |-> Append(st.colored, (j * Width) + i)],
                      new, old)
             ELSE FloodFillAllScan(k + 1, st, new, old)

\* floodFillAll, lines 499-520.
FloodFillAll ==
    /\ pc = "fillall_call"
    /\ LET x == DoubleTilde(fillX)
           y == DoubleTilde(fillY)
           new == FillStyleToColor(fillStyle)
           old == GetColor(x, y, canvas)
           r == FloodFillAllScan(0, [data |-> canvas, colored |-> <<>>], new, old)
       IN  /\ newColor' = new
           /\ oldColor' = old
           /\ IF SameColor(old, new)
              THEN /\ ret' = FALSE
                   /\ imageData' = canvas
                   /\ UNCHANGED <<canvas, colored, puts>>
              ELSE /\ ret' = TRUE
                   /\ imageData' = r.data
                   /\ colored' = r.colored
                   /\ canvas' = r.data
                   /\ puts' = puts + 1
    /\ pc' = "fillall_ret"
    /\ UNCHANGED <<before, fillX, fillY, fillStyle, stack, pushes>>
    /\ UNCHANGED notFill

InitFill ==
    /\ pc \in {"fill_call", "fillall_call"}
    /\ canvas \in Buffers
    /\ before = canvas
    /\ fillX \in SeedXs
    /\ fillY \in SeedYs
    /\ fillStyle \in FillStyles
    /\ newColor = <<>>
    /\ oldColor = <<>>
    /\ imageData = <<>>
    /\ stack = <<>>
    /\ ret = FALSE
    /\ colored = <<>>
    /\ pushes = 0
    /\ puts = 0
    /\ LineIdle
    /\ BoundsIdle
    /\ RectIdle
    /\ EllipseIdle

NextFill ==
    \/ FloodFillEnter
    \/ FloodFillPop
    \/ FloodFillReturn
    \/ FloodFillAll

SpecFill == InitFill /\ [][NextFill]_vars

----------------------------------------------------------------------------
(* Claims about floodFill and floodFillAll *)

SeedX == TruncTowardZero(fillX)
SeedY == TruncTowardZero(fillY)

SeedInBounds == SeedX >= 0 /\ SeedX < Width /\ SeedY >= 0 /\ SeedY < Height

\* The colour sampled at the seed before the call: outside the canvas,
\* transparent black.
SeedColor == IF SeedInBounds THEN before[(SeedY * Width) + SeedX] ELSE Transparent

RequestedColor ==
    IF fillStyle = "#ff0000" THEN <<255, 0, 0, 255>> ELSE <<0, 0, 0, 255>>

FillReturned == pc \in {"fill_ret", "fillall_ret"}

PixelX(i) == i % Width
PixelY(i) == i \div Width

Adjacent4(p, q) ==
    Abs(PixelX(p) - PixelX(q)) + Abs(PixelY(p) - PixelY(q)) = 1

\* The 4-connected region of pixels of colour c in buffer b that contains S.
RECURSIVE Region(_, _, _)
Region(S, b, c) ==
    LET grown == S \cup {q \in Indices : b[q] = c /\ \E p \in S : Adjacent4(p, q)}
    IN  IF grown = S THEN S ELSE Region(grown, b, c)

SeedRegion == Region({(SeedY * Width) + SeedX}, before, SeedColor)

\* C4: floodFill from an in-bounds seed whose colour differs from the new
\* colour recolours exactly the 4-connected region of the seed's colour that
\* contains the seed; every other pixel keeps its value.
C4_FillsSeedRegion ==
    (pc = "fill_ret" /\ SeedInBounds /\ SeedColor # RequestedColor) =>
        LET region == SeedRegion
        IN  canvas = [i \in Indices |->
                         IF i \in region THEN RequestedColor ELSE before[i]]

\* C4 witness: a fill that recoloured a region of several pixels and left a
\* pixel of the same old colour, not connected to the seed, as it was.
C4_Witness ==
    /\ pc = "fill_ret"
    /\ SeedInBounds
    /\ SeedColor # RequestedColor
    /\ LET region == SeedRegion
       IN  /\ Cardinality(region) >= 3
           /\ \E i \in Indices :
                 i \notin region /\ before[i] = SeedColor /\ canvas[i] = SeedColor

\* C5: floodFillAll from an in-bounds seed whose colour differs from the new
\* colour returns true, sets every pixel that had the seed's colour to the new
\* colour and leaves the others unchanged.
C5_FillAllRecolorsEveryMatch ==
    (pc = "fillall_ret" /\ SeedInBounds /\ SeedColor # RequestedColor) =>
        /\ ret = TRUE
        /\ \A i \in Indices :
              canvas[i] = IF before[i] = SeedColor THEN RequestedColor ELSE before[i]

\* C5 witness: a uniformly transparent canvas recoloured entirely, and the
\* call returned true.
C5_Witness ==
    /\ pc = "fillall_ret"
    /\ SeedInBounds
    /\ ret = TRUE
    /\ \A i \in Indices : before[i] = Transparent /\ canvas[i] = Red

NoDuplicates(seq) == \A i, j \in 1..Len(seq) : i # j => seq[i] # seq[j]

\* Pixels of the working copy that still have the old colour.
Remaining(data, old) == Cardinality({i \in DOMAIN data : data[i] = old})

\* The stack loop's variant: entries to pop plus twice the pixels left to colour.
FillMeasure == Len(stack) + (2 * Remaining(imageData, oldColor))

C9_Bounded ==
    pc \in {"fill_loop", "fill_ret"} =>
        /\ NoDuplicates(colored)
        /\ pushes <= 2 * Len(colored)
        /\ pushes <= 2 * Width * Height
        /\ FillMeasure >= 0

C9_Progress ==
    pc = "fill_loop" =>
        \/ /\ stack = <<>>
           /\ pc' = "fill_ret"
           /\ canvas' = imageData
        \/ /\ stack # <<>>
           /\ FillMeasure' < FillMeasure
           /\ pushes' - pushes <= 2 * (Len(colored') - Len(colored))

\* C9: the stack loop of floodFill terminates with the buffer written back:
\* every step of the loop either finds the stack empty, writes the buffer back
\* and returns, or pops an entry and lowers a natural-number measure; a scan
\* pushes at most twice per pixel it recolours, no pixel is recoloured twice,
\* and so the pushes number at most 2 x width x height.
C9_FillTerminates == []C9_Bounded /\ [][C9_Progress]_vars

\* C9 witness: a returned fill from a seed outside the canvas that recoloured
\* every pixel of the canvas and pushed several times.
C9_Witness ==
    /\ pc = "fill_ret"
    /\ ret = TRUE
    /\ ~SeedInBounds
    /\ Len(colored) = Width * Height
    /\ pushes >= 3

----------------------------------------------------------------------------
(* getHitBounds, trim_, convertToVector *)

\* The rasters handed to getHitBounds: every pixel transparent or opaque.
Rasters == [Indices -> {Transparent, Black}]

\* The layer's children before the call: none, or one vector item.
Layers == {<<>>, <<[kind |-> "path"]>>}

\* rowBlank_ testing the first byte of each pixel instead of the alpha byte.
RowBlankRed(data, width, y) ==
    \A x \in 0..(width - 1) : data[(y * width) + x][1] = 0

\* rowBlank_: no pixel of row y has alpha # 0.
RowBlank(data, width, y) ==
    \A x \in 0..(width - 1) : data[(y * width) + x][4] = 0

\* columnBlank_: no pixel of column x in rows top..bottom-1 has alpha # 0.
ColumnBlank(data, width, x, top, bottom) ==
    \A y \in top..(bottom - 1) : data[(y * width) + x][4] = 0

\* Line 307.
RECURSIVE HitTop(_, _, _)
HitTop(data, top, bottom) ==
    IF top < bottom /\ RowBlank(data, Width, top)
    THEN HitTop(data, top + 1, bottom)
    ELSE top

\* Line 308.
RECURSIVE HitBottom(_, _, _)
HitBottom(data, top, bottom) ==
    IF bottom - 1 > top /\ RowBlank(data, Width, bottom - 1)
    THEN HitBottom(data, top, bottom - 1)
    ELSE bottom

\* Line 309.
RECURSIVE HitLeft(_, _, _, _, _)
HitLeft(data, left, right, top, bottom) ==
    IF left < right /\ ColumnBlank(data, Width, left, top, bottom)
    THEN HitLeft(data, left + 1, right, top, bottom)
    ELSE left

\* Line 310.
RECURSIVE HitRight(_, _, _, _, _)
HitRight(data, left, right, top, bottom) ==
    IF right - 1 > left /\ ColumnBlank(data, Width, right - 1, top, bottom)
    THEN HitRight(data, left, right - 1, top, bottom)
    ELSE right

\* getHitBounds, lines 299-313, of a raster whose image data is `data`.
HitBoundsOf(data) ==
    LET top == HitTop(data, 0, Height)
        bottom == HitBottom(data, top, Height)
        left == HitLeft(data, 0, Width, top, bottom)
        right == HitRight(data, left, Width, top, bottom)
    IN  [x |-> left, y |-> top, width |-> right - left, height |-> bottom - top]

\* trim_ without the test of line 317.
TrimAlways(data) ==
    <<[kind |-> "raster", bounds |-> HitBoundsOf(data)]>>

\* trim_, lines 315-321: the sub-raster of the hit bounds, or null.  The
\* result is the sequence of items to add: empty for null.
Trim(data) ==
    LET bounds == HitBoundsOf(data)
    IN  IF bounds.width # 0 /\ bounds.height # 0
        THEN <<[kind |-> "raster", bounds |-> HitBoundsOf(data)]>>
        ELSE <<>>

\* getHitBounds called by a client.
GetHitBounds ==
    /\ pc = "idle"
    /\ hitBounds' = HitBoundsOf(canvas)
    /\ pc' = "hit_ret"
    /\ UNCHANGED <<activeLayer, calls, images>>
    /\ UNCHANGED notBounds

\* convertToVector, lines 371-379.
ConvertToVector ==
    /\ pc = "idle"
    /\ activeLayer' = activeLayer \o Trim(canvas)
    /\ calls' = calls \o <<"clearSelectedItems", "clearRaster", "onUpdateImage">>
    /\ pc' = "vector_ret"
    /\ UNCHANGED <<hitBounds, images>>
    /\ UNCHANGED notBounds

InitBounds ==
    /\ pc = "idle"
    /\ canvas \in Rasters
    /\ before = canvas
    /\ FillLocalsIdle
    /\ LineIdle
    /\ hitBounds = [x |-> 0, y |-> 0, width |-> 0, height |-> 0]
    /\ activeLayer \in Layers
    /\ calls = <<>>
    /\ images = <<>>
    /\ RectIdle
    /\ EllipseIdle

NextBounds ==
    \/ GetHitBounds
    \/ ConvertToVector

SpecBounds == InitBounds /\ [][NextBounds]_vars

----------------------------------------------------------------------------
(* Claims about getHitBounds *)

Opaque(i) == before[i][4] # 0

InRect(i, r) ==
    /\ PixelX(i) >= r.x
    /\ PixelX(i) < r.x + r.width
    /\ PixelY(i) >= r.y
    /\ PixelY(i) < r.y + r.height

\* C6: for a buffer with at least one pixel of alpha # 0, getHitBounds returns
\* the minimal enclosing rectangle: every such pixel lies inside it, and its
\* top row, bottom row, left column and right column each hold one.
C6_HitBoundsMinimal ==
    (pc = "hit_ret" /\ \E i \in Indices : Opaque(i)) =>
        /\ \A i \in Indices : Opaque(i) => InRect(i, hitBounds)
        /\ \E i \in Indices : Opaque(i) /\ PixelY(i) = hitBounds.y
        /\ \E i \in Indices : Opaque(i) /\ PixelY(i) = hitBounds.y + hitBounds.height - 1
        /\ \E i \in Indices : Opaque(i) /\ PixelX(i) = hitBounds.x
        /\ \E i \in Indices : Opaque(i) /\ PixelX(i) = hitBounds.x + hitBounds.width - 1

\* C6 witness: a single opaque pixel at (1, 2) gives rect(1, 2, 1, 1).
C6_Witness ==
    /\ pc = "hit_ret"
    /\ \A i \in Indices : Opaque(i) <=> i = (2 * Width) + 1
    /\ hitBounds = [x |-> 1, y |-> 2, width |-> 1, height |-> 1]

AllTransparent == \A i \in Indices : before[i][4] = 0

\* C7: for a buffer whose pixels all have alpha 0, getHitBounds returns a
\* rectangle of width 0 or height 0, and convertToVector adds no raster to
\* the active layer (trim_ returned null) and still calls onUpdateImage.
C7_TransparentNotAdded ==
    AllTransparent =>
        /\ pc = "hit_ret" => (hitBounds.width = 0 \/ hitBounds.height = 0)
        /\ pc = "vector_ret" =>
              /\ \A k \in 1..Len(activeLayer) : activeLayer[k].kind # "raster"
              /\ calls = <<"clearSelectedItems", "clearRaster", "onUpdateImage">>

\* C7 witness: convertToVector returned on an all-transparent raster with a
\* layer that already held an item.
C7_Witness ==
    /\ AllTransparent
    /\ pc = "vector_ret"
    /\ Len(activeLayer) = 1
    /\ calls # <<>>

----------------------------------------------------------------------------
(* drawRect *)

\* rect.size.width and rect.size.height range over 1..MaxRectSize.
MaxRectSize == 2

\* The canvas drawRect draws on holds at most MaxRectInk black pixels.
MaxRectInk == 1

RectCanvases ==
    {[i \in Indices |-> IF i \in S THEN Black ELSE Transparent] :
        S \in {T \in SUBSET Indices : Cardinality(T) <= MaxRectInk}}

RectSizes == [width : 1..MaxRectSize, height : 1..MaxRectSize]

\* Matrices with entries -1, 0, 1 and a translation in halves.
RectMatrices == [a : {-1, 0, 1}, b : {-1, 0, 1}, c : {-1, 0, 1}, d : {-1, 0, 1},
                 tx : SeedXs, ty : SeedYs]

\* paper.Matrix.transform of the point (px/2, py/2): the result in halves.
Transform(m, px, py) ==
    [x |-> (m.a * px) + (m.c * py) + m.tx,
     y |-> (m.b * px) + (m.d * py) + m.ty]

\* Lines 20-31 of forEachLinePoint as a function: the points visited after
\* (x, y) on the way to (x2, y2).
RECURSIVE LineRest(_, _, _, _, _, _, _, _, _)
LineRest(x, y, e, x2, y2, dx, dy, sx, sy) ==
    IF x = x2 /\ y = y2
    THEN <<>>
    ELSE LET n == LineStepOf(x, y, e, dx, dy, sx, sy)
         IN  <<<<n.x, n.y>>>> \o LineRest(n.x, n.y, n.err, x2, y2, dx, dy, sx, sy)

\* forEachLinePoint(p1, p2, callback): the points handed to callback.
LinePoints(p1, p2) ==
    LET ax == DoubleTilde(p1.x)
        bx == DoubleTilde(p2.x)
        ay == DoubleTilde(p1.y)
        by == DoubleTilde(p2.y)
        dx == Abs(bx - ax)
        dy == Abs(by - ay)
        sx == IF ax < bx THEN 1 ELSE -1
        sy == IF ay < by THEN 1 ELSE -1
    IN  <<<<ax, ay>>>> \o LineRest(ax, ay, dx - dy, bx, by, dx, dy, sx, sy)

\* context.fillRect(x, y, w, h) with an opaque fill style: the pixels of the
\* rectangle that lie on the canvas take the style's colour.  A negative
\* width or height spans the other way.
FillRect(context, x, y, w, h, color) ==
    [i \in DOMAIN context |->
        IF /\ (i % Width) >= Min(x, x + w)
           /\ (i % Width) < Max(x, x + w)
           /\ (i \div Width) >= Min(y, y + h)
           /\ (i \div Width) < Max(y, y + h)
        THEN color
        ELSE context[i]]

\* The callback of lines 543-554 run on each point of a sequence.
RECURSIVE FillPoints(_, _, _)
FillPoints(context, pts, color) ==
    IF pts = <<>>
    THEN context
    ELSE FillPoints(FillRect(context, Head(pts)[1], Head(pts)[2], 1, 1, color),
                    Tail(pts), color)

StartPoint(m, size) == Transform(m, -size.width, -size.height)
WidthPoint(m, size) == Transform(m, size.width, -size.height)
HeightPoint(m, size) == Transform(m, -size.width, size.height)
EndPoint(m, size) == Transform(m, size.width, size.height)
Center(m) == Transform(m, 0, 0)

\* drawRect, lines 528-537: no rotation component; one fillRect.
DrawRectAxisAligned ==
    /\ pc = "rect_call"
    /\ rectMatrix.b = 0
    /\ rectMatrix.c = 0
    /\ LET width == rectSize.width * rectMatrix.a
           height == rectSize.height * rectMatrix.d
       IN  canvas' = FillRect(canvas,
                              DoubleTilde(rectMatrix.tx - width),
                              DoubleTilde(rectMatrix.ty - height),
                              width, height, FillStyleToColor(fillStyle))
    /\ pc' = "rect_ret"
    /\ UNCHANGED <<before, fillX, fillY, fillStyle, newColor, oldColor, imageData,
                   stack, ret, colored, pushes, puts>>
    /\ UNCHANGED notFill

\* drawRect, lines 538-555: the four edges, then the call of floodFill from
\* the truncated centre with context.fillStyle.
DrawRectEdges ==
    /\ pc = "rect_call"
    /\ ~(rectMatrix.b = 0 /\ rectMatrix.c = 0)
    /\ LET startPoint == StartPoint(rectMatrix, rectSize)
           widthPoint == WidthPoint(rectMatrix, rectSize)
           heightPoint == HeightPoint(rectMatrix, rectSize)
           endPoint == EndPoint(rectMatrix, rectSize)
           center == Center(rectMatrix)
           color == FillStyleToColor(fillStyle)
           c1 == FillPoints(canvas, LinePoints(startPoint, widthPoint), color)
           c2 == FillPoints(c1, LinePoints(startPoint, heightPoint), color)
           c3 == FillPoints(c2, LinePoints(endPoint, widthPoint), color)
           c4 == FillPoints(c3, LinePoints(endPoint, heightPoint), color)
       IN  /\ canvas' = c4
           /\ fillX' = 2 * DoubleTilde(center.x)
           /\ fillY' = 2 * DoubleTilde(center.y)
    /\ pc' = "fill_call"
    /\ UNCHANGED <<before, fillStyle, newColor, oldColor, imageData, stack, ret,
                   colored, pushes, puts>>
    /\ UNCHANGED notFill

InitRect ==
    /\ pc = "rect_call"
    /\ canvas \in RectCanvases
    /\ before = canvas
    /\ fillStyle \in FillStyles
    /\ rectSize \in RectSizes
    /\ rectMatrix \in RectMatrices
    /\ fillX = 0
    /\ fillY = 0
    /\ newColor = <<>>
    /\ oldColor = <<>>
    /\ imageData = <<>>
    /\ stack = <<>>
    /\ ret = FALSE
    /\ colored = <<>>
    /\ pushes = 0
    /\ puts = 0
    /\ LineIdle
    /\ BoundsIdle
    /\ EllipseIdle

NextRect ==
    \/ DrawRectAxisAligned
    \/ DrawRectEdges
    \/ FloodFillEnter
    \/ FloodFillPop
    \/ FloodFillReturn

SpecRect == InitRect /\ [][NextRect]_vars

----------------------------------------------------------------------------
(* Claims about drawRect *)

Rotated == rectMatrix.b # 0 \/ rectMatrix.c # 0

\* The four transformed corners, truncated toward zero.
CornerXs ==
    {TruncTowardZero((rectMatrix.a * sw * rectSize.width)
                     + (rectMatrix.c * sh * rectSize.height) + rectMatrix.tx) :
        sw \in {-1, 1}, sh \in {-1, 1}}

CornerYs ==
    {TruncTowardZero((rectMatrix.b * sw * rectSize.width)
                     + (rectMatrix.d * sh * rectSize.height) + rectMatrix.ty) :
        sw \in {-1, 1}, sh \in {-1, 1}}

InCornerBox(i) ==
    /\ \E cx \in CornerXs : cx <= PixelX(i)
    /\ \E cx \in CornerXs : cx >= PixelX(i)
    /\ \E cy \in CornerYs : cy <= PixelY(i)
    /\ \E cy \in CornerYs : cy >= PixelY(i)

\* C10: for a rect whose matrix has a nonzero b or c, drawRect changes no
\* pixel outside the axis-aligned bounding box of the four truncated
\* transformed corners, whatever the canvas held and wherever the rectangle
\* lies relative to the canvas.
C10_RectStaysInBox ==
    (pc = "fill_ret" /\ Rotated) =>
        \A i \in Indices : canvas[i] # before[i] => InCornerBox(i)

----------------------------------------------------------------------------
(* Numbers of the ellipse routines: rationals, infinities, NaN *)

RECURSIVE GCD(_, _)
GCD(a, b) == IF b = 0 THEN a ELSE GCD(b, a % b)

\* The greatest common divisor of |a| and |b|, and 1 for a = b = 0.
Gcd1(a, b) == IF a = 0 /\ b = 0 THEN 1 ELSE GCD(Abs(a), Abs(b))

\* The number n/d in lowest terms, d # 0.
Num(n, d) ==
    LET g == Gcd1(n, d)
        sg == IF d < 0 THEN -1 ELSE 1
    IN  [k |-> "num", n |-> sg * (n \div g), d |-> sg * (d \div g)]

Infinity == [k |-> "inf", n |-> 1, d |-> 0]
NegInfinity == [k |-> "inf", n |-> -1, d |-> 0]
NaN == [k |-> "nan", n |-> 0, d |-> 0]
Undefined == [k |-> "undefined", n |-> 0, d |-> 0]

Zero == Num(0, 1)
One == Num(1, 1)
Two == Num(2, 1)
Four == Num(4, 1)
Half == Num(1, 2)

IsFinite(a) == a.k = "num"

\* -1, 0 or 1; a is not NaN.
Sign(a) == IF a.n > 0 THEN 1 ELSE IF a.n < 0 THEN -1 ELSE 0

\* -a
NumNeg(a) == [a EXCEPT !.n = -a.n]

\* a + b
NumAdd(a, b) ==
    IF a.k = "nan" \/ b.k = "nan" THEN NaN
    ELSE IF IsFinite(a) /\ IsFinite(b)
         THEN LET g == Gcd1(a.d, b.d)
              IN  Num((a.n * (b.d \div g)) + (b.n * (a.d \div g)), (a.d \div g) * b.d)
    ELSE IF IsFinite(a) THEN b
    ELSE IF IsFinite(b) THEN a
    ELSE IF a = b THEN a ELSE NaN

\* a - b
NumSub(a, b) == NumAdd(a, NumNeg(b))

\* a * b
NumMul(a, b) ==
    IF a.k = "nan" \/ b.k = "nan" THEN NaN
    ELSE IF IsFinite(a) /\ IsFinite(b)
         THEN LET g1 == Gcd1(a.n, b.d)
                  g2 == Gcd1(b.n, a.d)
              IN  Num((a.n \div g1) * (b.n \div g2), (a.d \div g2) * (b.d \div g1))
    ELSE IF Sign(a) = 0 \/ Sign(b) = 0 THEN NaN
    ELSE IF Sign(a) * Sign(b) > 0 THEN Infinity ELSE NegInfinity

\* a / b.  A zero divisor is +0: the zero divisors of these routines are
\* sums of a number and its negative.
NumDiv(a, b) ==
    IF a.k = "nan" \/ b.k = "nan" THEN NaN
    ELSE IF IsFinite(a) /\ IsFinite(b)
         THEN IF b.n = 0
              THEN IF a.n = 0 THEN NaN
                   ELSE IF a.n > 0 THEN Infinity ELSE NegInfinity
              ELSE NumMul(a, Num(b.d, b.n))
    ELSE IF ~IsFinite(a) /\ ~IsFinite(b) THEN NaN
    ELSE IF IsFinite(a) THEN Zero
    ELSE IF Sign(b) >= 0 THEN a ELSE NumNeg(a)

\* a > b
NumGt(a, b) ==
    IF a.k = "nan" \/ b.k = "nan" THEN FALSE
    ELSE IF IsFinite(a) /\ IsFinite(b)
         THEN LET g == Gcd1(a.d, b.d)
              IN  (a.n * (b.d \div g)) > (b.n * (a.d \div g))
    ELSE IF a = b THEN FALSE
    ELSE a = Infinity \/ b = NegInfinity

\* a >= b
NumGe(a, b) ==
    IF a.k = "nan" \/ b.k = "nan" THEN FALSE ELSE NumGt(a, b) \/ a = b

\* The number h/2 of a value given in halves.
OfHalves(h) == Num(h, 2)

\* ~~v, resp. ~~Math.abs(v): ToInt32 takes NaN and the infinities to 0.
NumTrunc(a) ==
    IF ~IsFinite(a) THEN 0
    ELSE IF a.n >= 0 THEN a.n \div a.d ELSE -((-a.n) \div a.d)

\* Math.floor(v)
NumFloor(a) == IF IsFinite(a) THEN Num(a.n \div a.d, 1) ELSE a

\* !!v for a number or undefined
Truthy(a) == a.k = "inf" \/ (a.k = "num" /\ a.n # 0)

----------------------------------------------------------------------------
(* Roots of quadratics *)

\* The number (p + sgn * sqrt(disc)) / q with p, disc, q finite, disc >= 0, q > 0.
Surd(p, disc, sgn, q) == [k |-> "surd", p |-> p, disc |-> disc, sgn |-> sgn, q |-> q]

IsSurd(v) == v.k = "surd"

\* sqrt(disc) > t and sqrt(disc) >= t, for finite disc >= 0 and finite t.
SqrtGt(disc, t) == Sign(t) < 0 \/ NumGt(disc, NumMul(t, t))
SqrtGe(disc, t) == Sign(t) <= 0 \/ NumGe(disc, NumMul(t, t))

\* v > r, v >= r, v < r and v = r for a root v and a finite r.
SurdGt(v, r) ==
    LET t == NumSub(NumMul(r, v.q), v.p)
    IN  IF v.sgn = 1 THEN SqrtGt(v.disc, t) ELSE ~SqrtGe(v.disc, NumNeg(t))

SurdGe(v, r) ==
    LET t == NumSub(NumMul(r, v.q), v.p)
    IN  IF v.sgn = 1 THEN SqrtGe(v.disc, t) ELSE ~SqrtGt(v.disc, NumNeg(t))

SurdLt(v, r) == ~SurdGe(v, r)

SurdEq(v, r) == SurdGe(v, r) /\ ~SurdGt(v, r)

\* v === 0 for a root or a number v.
IsZero(v) == IF IsSurd(v) THEN SurdEq(v, Zero) ELSE v = Zero

\* An integer no smaller than |v| for a root v.
SurdBound(v) ==
    LET b == NumDiv(NumAdd(NumAdd([v.p EXCEPT !.n = Abs(v.p.n)], v.disc), One), v.q)
    IN  (b.n \div b.d) + 1

\* Math.floor(v) for a root or a number v.
Floor(v) ==
    IF IsSurd(v)
    THEN LET b == SurdBound(v)
         IN  Num(CHOOSE n \in (-b)..b : SurdGe(v, Num(n, 1)) /\ ~SurdGe(v, Num(n + 1, 1)), 1)
    ELSE NumFloor(v)

\* Math.sqrt(v) where v is not finite.
SqrtNonFinite(v) == IF v = Infinity THEN Infinity ELSE NaN

\* solveQuadratic_(a, b, c): <<larger solution, smaller solution>>.  With a
\* finite discriminant the solutions are kept as roots (a > 0 in every
\* call); a negative discriminant makes both NaN.
SolveQuadratic(a, b, c) ==
    LET disc == NumSub(NumMul(b, b), NumMul(NumMul(Four, a), c))
    IN  IF IsFinite(disc)
        THEN IF Sign(disc) < 0
             THEN <<NaN, NaN>>
             ELSE <<Surd(NumNeg(b), disc, 1, NumMul(Two, a)),
                    Surd(NumNeg(b), disc, -1, NumMul(Two, a))>>
        ELSE LET sq == SqrtNonFinite(disc)
                 soln1 == NumDiv(NumDiv(NumAdd(NumNeg(b), sq), Two), a)
                 soln2 == NumDiv(NumDiv(NumSub(NumNeg(b), sq), Two), a)
             IN  IF NumGt(soln1, soln2) THEN <<soln1, soln2>> ELSE <<soln2, soln1>>

\* y / x > m where x is a root and y a finite number.
QuotientByRootGt(y, x, m) ==
    IF m.k = "nan" THEN FALSE
    ELSE IF IsZero(x)
         THEN NumGt(NumDiv(y, Zero), m)
    ELSE IF ~IsFinite(m) THEN m = NegInfinity
    ELSE IF Sign(m) = 0
         THEN IF SurdGt(x, Zero) THEN Sign(y) > 0 ELSE Sign(y) < 0
    ELSE LET r == NumDiv(y, m)
         IN  IF SurdGt(x, Zero) = (Sign(m) > 0) THEN SurdLt(x, r) ELSE SurdGt(x, r)

\* y / x > m where y is a root and x a finite number other than 0.
RootQuotientGt(y, x, m) ==
    IF m.k = "nan" THEN FALSE
    ELSE IF ~IsFinite(m) THEN m = NegInfinity
    ELSE IF Sign(x) > 0 THEN SurdGt(y, NumMul(m, x)) ELSE SurdLt(y, NumMul(m, x))

\* y / x > m, where at most one of x, y is a root.
QuotientGt(y, x, m) ==
    IF IsSurd(x) THEN QuotientByRootGt(y, x, m)
    ELSE IF IsSurd(y)
         THEN IF IsFinite(x) THEN RootQuotientGt(y, x, m)
              ELSE IF x.k = "nan" THEN FALSE ELSE NumGt(Zero, m)
    ELSE NumGt(NumDiv(y, x), m)

----------------------------------------------------------------------------
(* drawShearedEllipse_ *)

\* Math.sqrt(v); the root of a finite v >= 0 is kept as [k |-> "sqrt"].
NumSqrt(v) ==
    IF IsFinite(v)
    THEN IF Sign(v) < 0 THEN NaN ELSE [v EXCEPT !.k = "sqrt"]
    ELSE SqrtNonFinite(v)

\* ~~Math.abs(r) for a number or a square root r.
TruncAbs(r) ==
    IF r.k = "sqrt"
    THEN CHOOSE n \in 0..((r.n \div r.d) + 1) :
            /\ n * n * r.d <= r.n
            /\ (n + 1) * (n + 1) * r.d > r.n
    ELSE NumTrunc([r EXCEPT !.n = Abs(r.n)])

\* Lines 60-61: const radiusX, const radiusY.
RadiusX(o) == NumSub(Num(TruncAbs(o.radiusX), 1), Half)
RadiusY(o) == NumSub(Num(TruncAbs(o.radiusY), 1), Half)

\* Lines 58-59: const centerX, const centerY.
CenterX(o) == Num(DoubleTilde(o.centerX), 1)
CenterY(o) == Num(DoubleTilde(o.centerY), 1)

\* Line 64: the condition under which drawShearedEllipse_ returns false.
ShearedRejects(o) ==
    \/ o.shearSlope = Infinity
    \/ NumGt(One, RadiusX(o))
    \/ NumGt(One, RadiusY(o))

\* Lines 68-70: const A, B, C.
CoefA(o) ==
    NumAdd(NumDiv(NumDiv(One, RadiusX(o)), RadiusX(o)),
           NumDiv(NumDiv(NumMul(o.shearSlope, o.shearSlope), RadiusY(o)), RadiusY(o)))

CoefB(o) == NumDiv(NumDiv(NumMul(Num(-2, 1), o.shearSlope), RadiusY(o)), RadiusY(o))

CoefC(o) == NumDiv(NumDiv(One, RadiusY(o)), RadiusY(o))

\* Lines 72-75: const slope1, slope2, verticalStepsFirst.
Slope1(o) ==
    NumDiv(NumSub(NumMul(Num(-2, 1), CoefA(o)), CoefB(o)),
           NumAdd(NumMul(Two, CoefC(o)), CoefB(o)))

Slope2(o) ==
    NumDiv(NumAdd(NumNeg(NumMul(Two, CoefA(o))), CoefB(o)),
           NumAdd(NumNeg(NumMul(Two, CoefC(o))), CoefB(o)))

VerticalStepsFirst(o) == NumGt(Slope1(o), Slope2(o))

\* Lines 142-143: let forwardLeaning.
ForwardLeaning(o) == NumGt(Slope1(o), Zero)

\* Lines 86, 103: the x solutions at height y.
SolveForX(o, y) ==
    SolveQuadratic(CoefA(o), NumMul(CoefB(o), y),
                   NumSub(NumMul(NumMul(CoefC(o), y), y), One))

\* Lines 117, 134: the y solutions at abscissa x.
SolveForY(o, x) ==
    SolveQuadratic(CoefC(o), NumMul(CoefB(o), x),
                   NumSub(NumMul(NumMul(CoefA(o), x), x), One))

\* Lines 148-152 and 176-180: the conditionFn of the steep vertical steps.
SteepCondition(o, x, y) ==
    IF IsZero(x) /\ Sign(y) > 0 THEN TRUE
    ELSE IF IsZero(x) /\ Sign(y) < 0 THEN FALSE
    ELSE QuotientGt(y, x, Slope1(o))

\* Lines 162-165: the conditionFn of the closing vertical steps.
ClosingCondition(o, y) ==
    IF ForwardLeaning(o)
    THEN NumGt(y, NumNeg(RadiusY(o)))
    ELSE NumGt(y, RadiusY(o))

\* The conditionFn of the vertical stepping that pc names, at height y.
VerticalCondition(o, at, y) ==
    IF at = "v3"
    THEN ClosingCondition(o, y)
    ELSE SteepCondition(o, SolveForX(o, y)[1], y)

\* The conditionFn of the horizontal stepping that pc names, at abscissa x:
\* lines 157 and 171, and line 185 for the closing steps.
HorizontalCondition(o, at, x) ==
    IF at = "h3"
    THEN NumGt(Zero, x)
    ELSE QuotientGt(SolveForY(o, x)[1], x, Slope2(o))

\* context.fillRect with number arguments: a call with an argument that is
\* not finite draws nothing.
FillRectNum(context, x, y, w, h, color) ==
    IF IsFinite(x) /\ IsFinite(y) /\ IsFinite(w) /\ IsFinite(h)
    THEN FillRect(context, x.n, y.n, w.n, h.n, color)
    ELSE context

\* context.fillRect applied to an argument list [x, y, w, h].
FillRectArgs(context, r, color) == FillRectNum(context, r[1], r[2], r[3], r[4], color)

\* The second fillRect of a vertical step drawn on the row centerY - pY,
\* without the inset of one pixel.
VerticalRectsNoInset(o, pX1, pX2, pY) ==
    LET span == NumAdd(NumSub(pX1, pX2), One)
    IN  IF o.isFilled
        THEN << <<NumSub(NumSub(CenterX(o), pX1), One), NumAdd(CenterY(o), pY), span, One>>,
                <<NumAdd(CenterX(o), pX2), NumSub(CenterY(o), pY), span, One>> >>
        ELSE << <<NumSub(NumSub(CenterX(o), pX1), One), NumAdd(CenterY(o), pY), One, One>>,
                <<NumAdd(CenterX(o), pX1), NumSub(CenterY(o), pY), One, One>> >>

\* Lines 95-101: the arguments of the two fillRect calls of a vertical step.
VerticalRects(o, pX1, pX2, pY) ==
    LET span == NumAdd(NumSub(pX1, pX2), One)
    IN  IF o.isFilled
        THEN << <<NumSub(NumSub(CenterX(o), pX1), One), NumAdd(CenterY(o), pY), span, One>>,
                <<NumAdd(CenterX(o), pX2), NumSub(NumSub(CenterY(o), pY), One), span, One>> >>
        ELSE << <<NumSub(NumSub(CenterX(o), pX1), One), NumAdd(CenterY(o), pY), One, One>>,
                <<NumAdd(CenterX(o), pX1), NumSub(NumSub(CenterY(o), pY), One), One, One>> >>

\* Lines 126-132: the arguments of the two fillRect calls of a horizontal step.
HorizontalRects(o, pX, pY1, pY2) ==
    LET span == NumAdd(NumSub(pY1, pY2), One)
    IN  IF o.isFilled
        THEN << <<NumSub(NumSub(CenterX(o), pX), One), NumAdd(CenterY(o), pY2), One, span>>,
                <<NumAdd(CenterX(o), pX), NumSub(NumSub(CenterY(o), pY1), One), One, span>> >>
        ELSE << <<NumSub(NumSub(CenterX(o), pX), One), NumAdd(CenterY(o), pY1), One, One>>,
                <<NumAdd(CenterX(o), pX), NumSub(NumSub(CenterY(o), pY1), One), One, One>> >>

Null == [k |-> "null", x |-> Undefined, y |-> Undefined]
NoPoint == [k |-> "undefined", x |-> Undefined, y |-> Undefined]
PointAt(x, y) == [k |-> "point", x |-> x, y |-> y]

\* Lines 105 and 136: the value returned by a stepping function.
StepResult(p) == IF Truthy(p[1]) \/ Truthy(p[2]) THEN PointAt(p[1], p[2]) ELSE Null

\* Lines 57-75 and the first stepping call: line 146 or line 169.
DrawShearedEllipseEnter ==
    /\ pc = "sheared_call"
    /\ IF ShearedRejects(options)
       THEN /\ pc' = "sheared_ret"
            /\ ret' = FALSE
            /\ UNCHANGED <<stepAt, pLast>>
       ELSE /\ pc' = IF VerticalStepsFirst(options) THEN "v1" ELSE "h1"
            /\ stepAt' = IF VerticalStepsFirst(options)
                         THEN IF ForwardLeaning(options)
                              THEN NumNeg(RadiusY(options))
                              ELSE RadiusY(options)
                         ELSE Half
            /\ pLast' = <<Undefined, Undefined>>
            /\ UNCHANGED ret
    /\ UNCHANGED <<canvas, before, fillX, fillY, fillStyle, newColor, oldColor, imageData,
                   stack, colored, pushes, puts>>
    /\ UNCHANGED <<ellipseArgs, options, lastPoint, fillRects, stepRects, allRects>>
    /\ UNCHANGED <<lineVars, boundsVars, rectVars>>

\* Lines 91-104: one iteration of the loop of drawEllipseStepVertical_.
DrawEllipseStepVertical ==
    /\ pc \in {"v1", "v2", "v3"}
    /\ VerticalCondition(options, pc, stepAt)
    /\ LET x == SolveForX(options, stepAt)
           pY == Floor(stepAt)
           pX1 == Floor(x[1])
           pX2 == Floor(x[2])
           color == FillStyleToColor(fillStyle)
           rects == VerticalRects(options, pX1, pX2, pY)
       IN  /\ canvas' = FillRectArgs(FillRectArgs(canvas, rects[1], color), rects[2], color)
           /\ stepRects' = rects
           /\ allRects' = allRects \cup {rects[1], rects[2]}
           /\ pLast' = <<pX1, pY>>
    /\ fillRects' = fillRects + 2
    /\ stepAt' = NumSub(stepAt, One)
    /\ UNCHANGED <<pc, before, fillX, fillY, fillStyle, newColor, oldColor, imageData,
                   stack, ret, colored, pushes, puts>>
    /\ UNCHANGED <<ellipseArgs, options, lastPoint>>
    /\ UNCHANGED <<lineVars, boundsVars, rectVars>>

\* Lines 122-135: one iteration of the loop of drawEllipseStepHorizontal_.
DrawEllipseStepHorizontal ==
    /\ pc \in {"h1", "h2", "h3"}
    /\ HorizontalCondition(options, pc, stepAt)
    /\ LET y == SolveForY(options, stepAt)
           pX == Floor(stepAt)
           pY1 == Floor(y[1])
           pY2 == Floor(y[2])
           color == FillStyleToColor(fillStyle)
           rects == HorizontalRects(options, pX, pY1, pY2)
       IN  /\ canvas' = FillRectArgs(FillRectArgs(canvas, rects[1], color), rects[2], color)
           /\ stepRects' = rects
           /\ allRects' = allRects \cup {rects[1], rects[2]}
           /\ pLast' = <<pX, pY1>>
    /\ fillRects' = fillRects + 2
    /\ stepAt' = NumAdd(stepAt, One)
    /\ UNCHANGED <<pc, before, fillX, fillY, fillStyle, newColor, oldColor, imageData,
                   stack, ret, colored, pushes, puts>>
    /\ UNCHANGED <<ellipseArgs, options, lastPoint>>
    /\ UNCHANGED <<lineVars, boundsVars, rectVars>>

\* Line 105, then the code after the call: lines 155-158 after the first
\* vertical stepping, lines 181-186 after the second, line 188 after the
\* closing one.  Reading a property of null raises a TypeError.
DrawEllipseStepVerticalReturn ==
    /\ pc \in {"v1", "v2", "v3"}
    /\ ~VerticalCondition(options, pc, stepAt)
    /\ LET result == StepResult(pLast)
           kept == IF result.k = "point" THEN result ELSE lastPoint
       IN  CASE pc = "v1" ->
                    /\ lastPoint' = result
                    /\ pc' = "h2"
                    /\ stepAt' = IF result.k = "point"
                                 THEN NumAdd(NumNeg(result.x), Half)
                                 ELSE Half
                    /\ pLast' = <<Undefined, Undefined>>
                    /\ UNCHANGED ret
              [] pc = "v2" ->
                    /\ lastPoint' = kept
                    /\ IF kept.k = "point"
                       THEN /\ pc' = "h3"
                            /\ stepAt' = NumAdd(NumNeg(kept.x), Half)
                            /\ pLast' = <<Undefined, Undefined>>
                       ELSE /\ pc' = "error"
                            /\ UNCHANGED <<stepAt, pLast>>
                    /\ UNCHANGED ret
              [] pc = "v3" ->
                    /\ pc' = "sheared_ret"
                    /\ ret' = TRUE
                    /\ UNCHANGED <<lastPoint, stepAt, pLast>>
    /\ UNCHANGED <<canvas, before, fillX, fillY, fillStyle, newColor, oldColor, imageData,
                   stack, colored, pushes, puts>>
    /\ UNCHANGED <<ellipseArgs, options, fillRects, stepRects, allRects>>
    /\ UNCHANGED <<lineVars, boundsVars, rectVars>>

\* Line 136, then the code after the call: lines 174-175 after the first
\* horizontal stepping, lines 158-161 after the second, line 188 after the
\* closing one.
DrawEllipseStepHorizontalReturn ==
    /\ pc \in {"h1", "h2", "h3"}
    /\ ~HorizontalCondition(options, pc, stepAt)
    /\ LET result == StepResult(pLast)
       IN  CASE pc = "h1" ->
                    /\ lastPoint' = result
                    /\ pc' = "v2"
                    /\ stepAt' = IF result.k = "point"
                                 THEN NumSub(result.y, Half)
                                 ELSE RadiusY(options)
                    /\ pLast' = <<Undefined, Undefined>>
                    /\ UNCHANGED ret
              [] pc = "h2" ->
                    /\ IF result.k = "point"
                       THEN /\ lastPoint' = result
                            /\ pc' = "v3"
                            /\ stepAt' = NumSub(result.y, Half)
                            /\ pLast' = <<Undefined, Undefined>>
                       ELSE IF lastPoint.k = "point"
                       THEN /\ lastPoint' = PointAt(NumSub(NumNeg(lastPoint.x), Half),
                                                    NumSub(NumNeg(lastPoint.y), Half))
                            /\ pc' = "v3"
                            /\ stepAt' = NumSub(NumSub(NumNeg(lastPoint.y), Half), Half)
                            /\ pLast' = <<Undefined, Undefined>>
                       ELSE /\ pc' = "error"
                            /\ UNCHANGED <<lastPoint, stepAt, pLast>>
                    /\ UNCHANGED ret
              [] pc = "h3" ->
                    /\ pc' = "sheared_ret"
                    /\ ret' = TRUE
                    /\ UNCHANGED <<lastPoint, stepAt, pLast>>
    /\ UNCHANGED <<canvas, before, fillX, fillY, fillStyle, newColor, oldColor, imageData,
                   stack, colored, pushes, puts>>
    /\ UNCHANGED <<ellipseArgs, options, fillRects, stepRects, allRects>>
    /\ UNCHANGED <<lineVars, boundsVars, rectVars>>

----------------------------------------------------------------------------
(* drawEllipse *)

\* paper.Matrix.isInvertible: a nonzero determinant and a finite translation.
IsInvertible(m) ==
    /\ (m.a * m.d) - (m.c * m.b) # 0
    /\ IsFinite(m.tx)
    /\ IsFinite(m.ty)

\* matrix.clone().invert(): the linear part of the inverse.
Inverse(m) ==
    LET det == (m.a * m.d) - (m.c * m.b)
    IN  [a |-> Num(m.d, det), b |-> Num(-m.b, det),
         c |-> Num(-m.c, det), d |-> Num(m.a, det)]

\* Lines 211-213: const A, B, C of the transformed ellipse.
EllipseA(inv, rx, ry) ==
    NumAdd(NumDiv(NumDiv(NumMul(inv.a, inv.a), rx), rx),
           NumDiv(NumDiv(NumMul(inv.b, inv.b), ry), ry))

EllipseB(inv, rx, ry) ==
    NumAdd(NumDiv(NumDiv(NumMul(NumMul(Two, inv.a), inv.c), rx), rx),
           NumDiv(NumDiv(NumMul(NumMul(Two, inv.b), inv.d), ry), ry))

EllipseC(inv, rx, ry) ==
    NumAdd(NumDiv(NumDiv(NumMul(inv.c, inv.c), rx), rx),
           NumDiv(NumDiv(NumMul(inv.d, inv.d), ry), ry))

\* Lines 217-219: const radiusB, radiusA, slope.
EllipseRadiusB(cA, cB, cC) == NumSqrt(NumDiv(One, cC))

EllipseRadiusA(cA, cB, cC) ==
    NumSqrt(NumDiv(NumMul(Num(-4, 1), cC),
                   NumSub(NumMul(cB, cB), NumMul(NumMul(Four, cA), cC))))

EllipseSlope(cA, cB, cC) == NumDiv(NumDiv(cB, Two), cC)

\* drawEllipse, lines 205-228, up to the call of drawShearedEllipse_.
DrawEllipse ==
    /\ pc = "ellipse_call"
    /\ IF ~IsInvertible(ellipseArgs.matrix)
       THEN /\ pc' = "ellipse_ret"
            /\ ret' = FALSE
            /\ UNCHANGED options
       ELSE LET inverse == Inverse(ellipseArgs.matrix)
                rx == Num(ellipseArgs.radiusX, 1)
                ry == Num(ellipseArgs.radiusY, 1)
                cA == EllipseA(inverse, rx, ry)
                cB == EllipseB(inverse, rx, ry)
                cC == EllipseC(inverse, rx, ry)
            IN  /\ options' = [centerX |-> ellipseArgs.positionX,
                               centerY |-> ellipseArgs.positionY,
                               radiusX |-> EllipseRadiusA(cA, cB, cC),
                               radiusY |-> EllipseRadiusB(cA, cB, cC),
                               shearSlope |-> EllipseSlope(cA, cB, cC),
                               isFilled |-> ellipseArgs.isFilled]
                /\ pc' = "sheared_call"
                /\ UNCHANGED ret
    /\ UNCHANGED <<canvas, before, fillX, fillY, fillStyle, newColor, oldColor, imageData,
                   stack, colored, pushes, puts>>
    /\ UNCHANGED <<ellipseArgs, stepAt, pLast, lastPoint, fillRects, stepRects, allRects>>
    /\ UNCHANGED <<lineVars, boundsVars, rectVars>>

\* The largest radius handed to the ellipse routines.
MaxRadius == 3

\* Centres <<x, y>>, in halves: the centre of the canvas, and a point that
\* truncates to its corner.
EllipseCenters == {<<Width, Height>>, <<-1, -1>>}

\* The canvases the ellipse routines draw on: blank, and one black pixel.
EllipseCanvases ==
    {[i \in Indices |-> IF i \in S THEN Black ELSE Transparent] : S \in {{}, {0}}}

\* options.radiusX and options.radiusY of a direct call: the whole numbers up
\* to MaxRadius, two radii with a fraction, one of them negative, and NaN.
EllipseRadii ==
    {OfHalves(2 * r) : r \in 0..MaxRadius} \cup {OfHalves(3), OfHalves(1 - (2 * MaxRadius)), NaN}

\* options.shearSlope of a direct call.
ShearSlopes == {Zero, Infinity, NegInfinity, NaN}

ShearedOptions ==
    {[centerX |-> c[1], centerY |-> c[2], radiusX |-> rx, radiusY |-> ry,
      shearSlope |-> s, isFilled |-> f] :
        c \in EllipseCenters, rx \in EllipseRadii, ry \in EllipseRadii,
        s \in ShearSlopes, f \in BOOLEAN}

\* The matrices handed to drawEllipse: the singular ones, and among the
\* invertible ones the identity, a reflection and the two quarter turns.
EllipseMatrices ==
    {m \in [a : {-1, 0, 1}, b : {-1, 0, 1}, c : {-1, 0, 1}, d : {-1, 0, 1},
            tx : {Zero, Infinity}, ty : {Zero}] :
        \/ (m.a * m.d) - (m.c * m.b) = 0
        \/ (m.b = 0 /\ m.c = 0 /\ m.d = 1)
        \/ (m.a = 0 /\ m.d = 0 /\ m.b * m.c = -1)}

EllipseArguments ==
    {[entry |-> "drawEllipse", positionX |-> c[1], positionY |-> c[2],
      radiusX |-> rx, radiusY |-> ry, matrix |-> m, isFilled |-> f] :
        c \in EllipseCenters, rx \in 1..MaxRadius, ry \in 1..MaxRadius,
        m \in EllipseMatrices, f \in BOOLEAN}

\* ellipseArgs of a direct call of drawShearedEllipse_.
DirectCall ==
    [entry |-> "drawShearedEllipse_", positionX |-> 0, positionY |-> 0,
     radiusX |-> 1, radiusY |-> 1,
     matrix |-> [a |-> 1, b |-> 0, c |-> 0, d |-> 1, tx |-> Zero, ty |-> Zero],
     isFilled |-> FALSE]

\* options before drawEllipse has built them.
NoOptions ==
    [centerX |-> 0, centerY |-> 0, radiusX |-> Undefined, radiusY |-> Undefined,
     shearSlope |-> Undefined, isFilled |-> FALSE]

InitEllipse ==
    /\ \/ /\ pc = "ellipse_call"
          /\ ellipseArgs \in EllipseArguments
          /\ options = NoOptions
       \/ /\ pc = "sheared_call"
          /\ ellipseArgs = DirectCall
          /\ options \in ShearedOptions
    /\ canvas \in EllipseCanvases
    /\ before = canvas
    /\ fillStyle \in FillStyles
    /\ stepAt = Undefined
    /\ pLast = <<Undefined, Undefined>>
    /\ lastPoint = NoPoint
    /\ fillRects = 0
    /\ stepRects = <<>>
    /\ allRects = {}
    /\ ret = FALSE
    /\ fillX = 0
    /\ fillY = 0
    /\ newColor = <<>>
    /\ oldColor = <<>>
    /\ imageData = <<>>
    /\ stack = <<>>
    /\ colored = <<>>
    /\ pushes = 0
    /\ puts = 0
    /\ LineIdle
    /\ BoundsIdle
    /\ RectIdle

NextEllipse ==
    \/ DrawEllipse
    \/ DrawShearedEllipseEnter
    \/ DrawEllipseStepVertical
    \/ DrawEllipseStepVerticalReturn
    \/ DrawEllipseStepHorizontal
    \/ DrawEllipseStepHorizontalReturn

SpecEllipse == InitEllipse /\ [][NextEllipse]_vars

----------------------------------------------------------------------------
(* Claims about the ellipse validity checks *)

\* drawEllipse was called with a matrix that is not invertible.
NonInvertibleCall ==
    /\ ellipseArgs.entry = "drawEllipse"
    /\ \/ (ellipseArgs.matrix.a * ellipseArgs.matrix.d)
            = (ellipseArgs.matrix.b * ellipseArgs.matrix.c)
       \/ ellipseArgs.matrix.tx.k # "num"
       \/ ellipseArgs.matrix.ty.k # "num"

\* drawShearedEllipse_ was called with an infinite shear slope, or with a
\* radius whose truncated magnitude less the half-pixel inset is below 1.
DegenerateShearedCall ==
    /\ options # NoOptions
    /\ \/ options.shearSlope.k = "inf"
       \/ TruncAbs(options.radiusX) < 2
       \/ TruncAbs(options.radiusY) < 2

EllipseReturned == pc \in {"ellipse_ret", "sheared_ret"}

\* C8: drawEllipse with a non-invertible matrix, and drawShearedEllipse_
\* with an infinite shear slope or a sub-pixel radius, return false, raise
\* no error and issue no fillRect; and whenever an ellipse routine returns
\* false the canvas is what it was when the routine was called.
C8_DegenerateReturnsFalse ==
    /\ (NonInvertibleCall \/ DegenerateShearedCall) =>
            /\ pc # "error"
            /\ fillRects = 0
            /\ canvas = before
            /\ EllipseReturned => ret = FALSE
    /\ (EllipseReturned /\ ret = FALSE) => (fillRects = 0 /\ canvas = before)

----------------------------------------------------------------------------
(* Claim C11: the two writes of a step mirror each other *)

OnCanvas(p) == p[1] \in 0..(Width - 1) /\ p[2] \in 0..(Height - 1)

\* The pixels <<x, y>> of the unbounded pixel grid inside the rectangle of the
\* fillRect arguments r; a call with an argument that is not finite has none.
RectPixels(r) ==
    IF IsFinite(r[1]) /\ IsFinite(r[2]) /\ IsFinite(r[3]) /\ IsFinite(r[4])
    THEN (Min(r[1].n, r[1].n + r[3].n)..(Max(r[1].n, r[1].n + r[3].n) - 1))
            \X (Min(r[2].n, r[2].n + r[4].n)..(Max(r[2].n, r[2].n + r[4].n) - 1))
    ELSE {}

\* The reflection across the center in both axes.
Mirror(p) == <<(2 * CenterX(options).n) - 1 - p[1], (2 * CenterY(options).n) - 1 - p[2]>>

\* The pixels the latest iteration, resp. the running call, issued fillRect over.
StepIssued == UNION {RectPixels(stepRects[i]) : i \in DOMAIN stepRects}
CallIssued == UNION {RectPixels(r) : r \in allRects}

\* The pixels written: fillRect writes no pixel outside the canvas.
StepWritten == {p \in StepIssued : OnCanvas(p)}
CallWritten == {p \in CallIssued : OnCanvas(p)}

InSheared == pc \in {"v1", "v2", "v3", "h1", "h2", "h3", "sheared_ret", "error"}

\* C11 as stated: in every stepping iteration a pixel is written iff its
\* mirror image across the center in both axes is written in the same
\* iteration, and so the set of pixels a call writes is invariant under the
\* reflection.
C11_WrittenPixelsMirrored ==
    InSheared =>
        /\ {Mirror(p) : p \in StepWritten} = StepWritten
        /\ {Mirror(p) : p \in CallWritten} = CallWritten

\* C11 amended: the rectangles a stepping iteration hands to fillRect cover a
\* pixel iff they cover its mirror image, in every mode, and so do the
\* rectangles of the whole call; a pixel whose mirror image is also on the
\* canvas is written iff the mirror image is written.
C11_IssuedRectsMirrored ==
    InSheared =>
        /\ {Mirror(p) : p \in StepIssued} = StepIssued
        /\ {Mirror(p) : p \in CallIssued} = CallIssued
        /\ \A p \in StepWritten : OnCanvas(Mirror(p)) => Mirror(p) \in StepWritten
        /\ \A p \in CallWritten : OnCanvas(Mirror(p)) => Mirror(p) \in CallWritten

\* A stepping iteration has just written a pixel of the canvas and its mirror
\* image, and a pixel whose mirror image lies outside the canvas.
C11_StepMirroredOnCanvas ==
    /\ pc \in {"v1", "v2", "v3", "h1", "h2", "h3"}
    /\ \E p \in StepWritten : Mirror(p) \in StepWritten
    /\ \E p \in StepWritten : ~OnCanvas(Mirror(p))

----------------------------------------------------------------------------
(* convertToBitmap *)

\* The number of convertToBitmap calls of a behaviour.
MaxCalls == 2

\* bounds.topLeft of the active layer at the call, in halves.
TopLefts == {<<3, 1>>}

\* <<img.width, img.height>> of a decoded image: empty one way or the other,
\* or not empty.
ImageSizes == {<<0, 1>>, <<1, 0>>, <<1, 1>>}

\* The image of a call: img.width and img.height once decoded, and the state
\* of the fallback raster of lines 358-365.
NewImage(w, h, topLeft) ==
    [state |-> "loading", width |-> w, height |-> h, topLeft |-> topLeft,
     raster |-> "none"]

\* The entries call i appends to the log.
Logged(i, names) == [k \in DOMAIN names |-> <<i, names[k]>>]

\* getRaster().drawImage(image, point): an opaque image of one pixel drawn
\* with its top left corner at point.
DrawImage(context, x, y) == FillRect(context, x, y, 1, 1, Black)

\* The error handler calling onUpdateImage itself instead of leaving it to
\* raster.onLoad.
ImgOnerrorNoWait(i) ==
    /\ pc = "idle"
    /\ i \in DOMAIN images
    /\ images[i].state = "loading"
    /\ images' = [images EXCEPT ![i].state = "error", ![i].raster = "waiting"]
    /\ activeLayer' = <<>>
    /\ calls' = calls \o Logged(i, <<"img.onerror", "rasterize", "removeChildren",
                                      "onUpdateImage">>)
    /\ UNCHANGED <<pc, hitBounds>>
    /\ UNCHANGED notBounds

\* Lines 323-368: the body of convertToBitmap, which runs to its end before
\* any event is dispatched.  Assigning img.src (line 367) starts the decode.
ConvertToBitmap ==
    /\ pc = "idle"
    /\ Len(images) < MaxCalls
    /\ \E size \in ImageSizes, topLeft \in TopLefts :
            images' = Append(images, NewImage(size[1], size[2], topLeft))
    /\ calls' = calls \o Logged(Len(images) + 1,
                    <<"clearSelectedItems", "hideGuideLayers", "exportSVG",
                      "showGuideLayers", "inlineSvgFonts", "img.src">>)
    /\ UNCHANGED <<pc, hitBounds, activeLayer>>
    /\ UNCHANGED notBounds

\* Lines 346-354: img.onload, run when the decode of call i succeeded.
ImgOnload(i) ==
    /\ pc = "idle"
    /\ i \in DOMAIN images
    /\ images[i].state = "loading"
    /\ images' = [images EXCEPT ![i].state = "load"]
    /\ IF images[i].width # 0 /\ images[i].height # 0
       THEN /\ canvas' = DrawImage(canvas, FloorHalf(images[i].topLeft[1]),
                                   FloorHalf(images[i].topLeft[2]))
            /\ calls' = calls \o Logged(i, <<"img.onload", "drawImage", "removeChildren",
                                              "onUpdateImage">>)
       ELSE /\ UNCHANGED canvas
            /\ calls' = calls \o Logged(i, <<"img.onload", "removeChildren",
                                              "onUpdateImage">>)
    /\ activeLayer' = <<>>
    /\ UNCHANGED <<pc, hitBounds>>
    /\ UNCHANGED <<before, fillX, fillY, fillStyle, newColor, oldColor, imageData,
                   stack, ret, colored, pushes, puts>>
    /\ UNCHANGED <<lineVars, rectVars, ellipseVars>>

\* Lines 355-366: img.onerror, run when the decode of call i failed.  It
\* rasterizes the layer and leaves the rest to the raster's onLoad.
ImgOnerror(i) ==
    /\ pc = "idle"
    /\ i \in DOMAIN images
    /\ images[i].state = "loading"
    /\ images' = [images EXCEPT ![i].state = "error", ![i].raster = "waiting"]
    /\ calls' = calls \o Logged(i, <<"img.onerror", "rasterize">>)
    /\ UNCHANGED <<pc, hitBounds, activeLayer>>
    /\ UNCHANGED notBounds

\* Lines 359-365: raster.onLoad of the fallback raster of call i.  The raster
\* may have an empty canvas.
RasterOnLoad(i) ==
    /\ pc = "idle"
    /\ i \in DOMAIN images
    /\ images[i].raster = "waiting"
    /\ images' = [images EXCEPT ![i].raster = "loaded"]
    /\ \E drawn \in BOOLEAN :
            IF drawn
            THEN /\ canvas' = DrawImage(canvas, FloorHalf(images[i].topLeft[1]),
                                        FloorHalf(images[i].topLeft[2]))
                 /\ calls' = calls \o Logged(i, <<"raster.onLoad", "drawImage",
                                                   "removeChildren", "onUpdateImage">>)
            ELSE /\ UNCHANGED canvas
                 /\ calls' = calls \o Logged(i, <<"raster.onLoad", "removeChildren",
                                                   "onUpdateImage">>)
    /\ activeLayer' = <<>>
    /\ UNCHANGED <<pc, hitBounds>>
    /\ UNCHANGED <<before, fillX, fillY, fillStyle, newColor, oldColor, imageData,
                   stack, ret, colored, pushes, puts>>
    /\ UNCHANGED <<lineVars, rectVars, ellipseVars>>

InitConvert ==
    /\ pc = "idle"
    /\ canvas = [i \in Indices |-> Transparent]
    /\ before = canvas
    /\ FillLocalsIdle
    /\ LineIdle
    /\ hitBounds = [x |-> 0, y |-> 0, width |-> 0, height |-> 0]
    /\ activeLayer \in Layers
    /\ calls = <<>>
    /\ images = <<>>
    /\ RectIdle
    /\ EllipseIdle

NextConvert ==
    \/ ConvertToBitmap
    \/ \E i \in 1..MaxCalls : ImgOnload(i)
    \/ \E i \in 1..MaxCalls : ImgOnerror(i)
    \/ \E i \in 1..MaxCalls : RasterOnLoad(i)

SpecConvert == InitConvert /\ [][NextConvert]_vars

----------------------------------------------------------------------------
(* Claim C12: the order of the callbacks of convertToBitmap *)

\* The positions in the log of the entry `name` of call i.
Positions(i, name) == {k \in DOMAIN calls : calls[k] = <<i, name>>}

\* The positions in the log of all entries of call i.
EntriesOf(i) == {k \in DOMAIN calls : calls[k][1] = i}

\* The entries a handler of call i logs once the decode has come to an end.
DecodeEvents(i) == Positions(i, "img.onload") \cup Positions(i, "img.onerror")

\* C12: for each convertToBitmap call, clearSelectedItems is the first thing
\* called, before the body of the call ends; onUpdateImage is called at most
\* once, only after the image's load or error event, on the error path only
\* after the fallback raster's onLoad, and right after the removal of the
\* active layer's children; and the body of the call ends, with the
\* assignment of img.src, before the decode does.
C12_CallbackOrdering ==
    \A i \in DOMAIN images :
        /\ Cardinality(Positions(i, "clearSelectedItems")) = 1
        /\ \A k \in EntriesOf(i), c \in Positions(i, "clearSelectedItems"),
              s \in Positions(i, "img.src") : c <= k /\ c < s
        /\ Cardinality(Positions(i, "onUpdateImage")) <= 1
        /\ \A u \in Positions(i, "onUpdateImage") :
                /\ \E e \in DecodeEvents(i) : e < u
                /\ Positions(i, "img.onerror") # {} =>
                        \E r \in Positions(i, "raster.onLoad") :
                            /\ r < u
                            /\ \A e \in Positions(i, "img.onerror") : e < r
                /\ calls[u - 1] = <<i, "removeChildren">>
                /\ (u = Len(calls)) => activeLayer = <<>>
        /\ \A s \in Positions(i, "img.src"), e \in DecodeEvents(i) : s < e

\* C12 witness: two calls are in flight at once; the decode of one failed and
\* its fallback raster has called onUpdateImage, the decode of the other
\* succeeded later.
C12_BothPathsDone ==
    /\ Len(images) = 2
    /\ \E i, j \in DOMAIN images :
            /\ images[i].state = "error"
            /\ images[i].raster = "loaded"
            /\ images[j].state = "load"
            /\ \E u \in Positions(i, "onUpdateImage"), v \in Positions(j, "onUpdateImage"),
                  s \in Positions(j, "img.src"), e \in Positions(i, "img.onerror") :
                    s < e /\ u < v

====
